---- MODULE Spec2Model ----
(***************************************************************************)
(* A model of the javac compile rule                                       *)
(*   src/python/pants/backend/java/compile/javac.py : compile_java_source  *)
(* run by a memoizing rule engine over a DAG of coarsened components.      *)
(*                                                                         *)
(* One node per (component, resolve key) pair; each node is one run of the *)
(* rule body, and every `await` of the body is one position of the node.   *)
(* Requests grouped in one MultiGet are answered one by one, in any order, *)
(* and the body resumes when all of them are answered.                     *)
(***************************************************************************)
EXTENDS Integers, Sequences, FiniteSets, TLC

(***************************************************************************)
(* Bounds.                                                                 *)
(***************************************************************************)
\* Number of root requests the caller of the rule issues in one build.
NumCallers == 2
\* Largest exit code the compiler process returns.
MaxExitCode == 2

(***************************************************************************)
(* The build graph handed to the rule: components, members, resolve keys.  *)
(***************************************************************************)
Components == {"A", "B", "C", "D", "L"}
Resolves == {"r1", "r2"}
Nodes == Components \X Resolves
Callers == 1 .. NumCallers

\* CoarsenedTarget.members, in tuple order.
members ==
  [c \in Components |->
     CASE c = "A" -> <<"A:y", "A:x">>
       [] c = "B" -> <<"B:b">>
       [] c = "C" -> <<"C:c", "C:art">>
       [] c = "D" -> <<"D:d">>
       [] c = "L" -> <<"L:lib">>]

Targets == UNION {{members[c][i] : i \in 1 .. Len(members[c])} : c \in Components}

\* CoarsenedTarget.representative: the member that names the outputs.
representative == [c \in Components |-> members[c][1]]

\* The edges every build graph of the model has: B and C share the ancestor D.
RequiredDependencies ==
  [c \in Components |-> IF c \in {"B", "C"} THEN {"D"} ELSE {}]

\* The edges a build graph of the model may have besides (a DAG by
\* construction): A over B and C closes the diamond, and C may use the
\* third-party library L.
OptionalDependencies == {<<"A", "B">>, <<"A", "C">>, <<"C", "L">>}

\* The sets of nodes the callers of one build may ask for: one node (any
\* component under the first resolve key, the user of the third-party
\* library under the second), a leaf component under both resolve keys, or
\* the shared ancestor under one key and a dependent of it under the other.
RootChoices ==
  {{<<c, "r1">>} : c \in Components} \cup {{<<"C", "r2">>}}
    \cup {{<<c, "r1">>, <<c, "r2">>} : c \in {"D", "L"}}
    \cup {{<<"D", "r1">>, <<"C", "r2">>}}

\* The target types a member may have: a java_sources target, a target with
\* a sources field that holds no Java sources, a jvm_artifact target.  The
\* component C has a member with the artifact fields of its own ("C:art"),
\* L is a third-party library.
AllowedKinds ==
  [t \in Targets |->
     CASE t \in {"A:y", "A:x", "D:d"} -> {"java", "resources"}
       [] t \in {"B:b", "C:c"} -> {"java"}
       [] OTHER -> {"artifact"}]

\* Target.has_field(SourcesField)
HasSourcesField(kind) == kind \in {"java", "resources"}

\* JvmArtifactFieldSet.is_applicable(target)
IsJvmArtifact(kind) == kind = "artifact"

(***************************************************************************)
(* Paths, images (digests) and snapshots.  A path is a tuple of segments;  *)
(* an image is its files and its directories.                              *)
(***************************************************************************)
EMPTY_DIGEST == [files |-> {}, dirs |-> {}]

\* The source file a java_sources member owns.
SourceFile ==
  [t \in Targets |->
     CASE t = "A:y" -> <<"src", "A", "Y.java">>
       [] t = "A:x" -> <<"src", "A", "X.java">>
       [] t = "B:b" -> <<"src", "B", "B.java">>
       [] t = "C:c" -> <<"src", "C", "C.java">>
       [] t = "D:d" -> <<"src", "D", "D.java">>
       [] OTHER -> <<"src">>]

\* Address.path_safe_spec of a member, followed by ".jar".
JarFileName ==
  [t \in Targets |->
     CASE t \in {"A:y", "A:x"} -> IF t = "A:y" THEN "src.A.y.jar" ELSE "src.A.x.jar"
       [] t = "B:b" -> "src.B.b.jar"
       [] t \in {"C:c", "C:art"} -> IF t = "C:c" THEN "src.C.c.jar" ELSE "src.C.art.jar"
       [] t = "D:d" -> "src.D.d.jar"
       [] OTHER -> "3rdparty.lib.jar"]

\* Every path a snapshot of the model lists, in lexicographic order.
LexOrder ==
  << <<"__usercp", "src.A.x.jar">>, <<"__usercp", "src.A.y.jar">>,
     <<"__usercp", "src.B.b.jar">>, <<"__usercp", "src.C.art.jar">>,
     <<"__usercp", "src.C.c.jar">>, <<"__usercp", "src.D.d.jar">>,
     <<"classfiles", "A.class">>, <<"classfiles", "B.class">>,
     <<"classfiles", "C.class">>, <<"classfiles", "D.class">>,
     <<"src", "A", "X.java">>, <<"src", "A", "Y.java">>,
     <<"src", "B", "B.java">>, <<"src", "C", "C.java">>,
     <<"src", "D", "D.java">>,
     <<"src.A.x.jar">>, <<"src.A.y.jar">>, <<"src.B.b.jar">>,
     <<"src.C.art.jar">>, <<"src.C.c.jar">>, <<"src.D.d.jar">> >>

\* sorted(paths): the paths of S in lexicographic order.
sorted(S) == LET InS(p) == p \in S IN SelectSeq(LexOrder, InS)

Range(s) == {s[i] : i \in 1 .. Len(s)}

\* Snapshot(digest).files: the files of an image, sorted.
SnapshotFiles(digest) == sorted(digest.files)

\* MergeDigests(digests): the union of the images.
MergeDigests(S) ==
  [files |-> UNION {d.files : d \in S}, dirs |-> UNION {d.dirs : d \in S}]

\* AddPrefix(digest, prefix)
AddPrefix(digest, prefix) ==
  [files |-> {<<prefix>> \o p : p \in digest.files},
   dirs |-> {<<prefix>> \o p : p \in digest.dirs}]

\* CreateDigest([Directory(dest_dir)])
CreateDirectory(dir) == [files |-> {}, dirs |-> {<<dir>>}]

\* chain.from_iterable over a sequence of sequences.
RECURSIVE chain(_)
chain(ss) == IF ss = <<>> THEN <<>> ELSE Head(ss) \o chain(Tail(ss))

(***************************************************************************)
(* The collaborators of the rule, at their boundary.                       *)
(***************************************************************************)
\* str(request.component): the addresses of the component's members.
Str(c) == <<"CoarsenedTarget">> \o members[c]

\* f"Compile {request.component} with javac"
CompileDescription(c) == <<"Compile">> \o Str(c) \o <<"with javac">>

\* SourceFiles for SourceFilesRequest((t.get(SourcesField),),
\* for_sources_types=(JavaSourceField,)): the snapshot of the member's Java
\* sources, empty for a sources field that holds none.
SourceFilesOf(t, k) ==
  IF k = "java"
  THEN [files |-> {SourceFile[t]}, dirs |-> {SubSeq(SourceFile[t], 1, 2)}]
  ELSE EMPTY_DIGEST

\* Coordinate.from_jvm_artifact_target(target)
CoordinateOf(t) == <<"com.lib", t>>

\* The CoursierResolvedLockfile of a resolve key.
UnfilteredLockfile(r) ==
  IF r = "r1"
  THEN << [coord |-> <<"com.lib", "C:art">>, file_name |-> "art-1.0.jar"],
          [coord |-> <<"com.lib", "L:lib">>, file_name |-> "lib-1.0.jar"],
          [coord |-> <<"org.other", "other">>, file_name |-> "other-1.0.jar"] >>
  ELSE << [coord |-> <<"com.lib", "C:art">>, file_name |-> "art-2.0.jar"],
          [coord |-> <<"com.lib", "L:lib">>, file_name |-> "lib-2.0.jar"],
          [coord |-> <<"org.other", "other">>, file_name |-> "other-2.0.jar"] >>

\* FilterDependenciesRequest(coordinates, lockfile)
FilterDependencies(coords, lockfile) ==
  LET Wanted(e) == e.coord \in coords IN SelectSeq(lockfile, Wanted)

\* MaterializedClasspathRequest(prefix, lockfiles=(lockfile,)): the entries
\* in lockfile order under the prefix, and the image that holds them.
MaterializedClasspath(prefix, lockfile) ==
  LET entries == [i \in 1 .. Len(lockfile) |-> <<prefix, lockfile[i].file_name>>]
  IN  [classpath_entries |-> entries,
       digest |-> [files |-> Range(entries),
                   dirs |-> IF entries = <<>> THEN {} ELSE {<<prefix>>}]]

\* The component order of CoarsenedTarget.dependencies.
ComponentOrder == <<"A", "B", "C", "D", "L">>

(***************************************************************************)
(* State.                                                                  *)
(***************************************************************************)
VARIABLES
  dependencies,  \* CoarsenedTarget.dependencies of every component
  kind,          \* the target type of every member
  roots,         \* the nodes the callers of this build ask for
  pc,            \* the position of every (component, resolve key) node
  frame,         \* the local variables of every node's run of the rule
  result,        \* the FallibleClasspathEntry a node returned, if any
  issued,        \* the requests a node sent to its collaborators, in order
  javac,         \* the compiler processes requested for a node
  running,       \* the compiler processes of a node that are in flight
  caller         \* the root requests: the node asked for, the entry received

vars == <<dependencies, kind, roots, pc, frame, result, issued, javac, running, caller>>

\* Optional values: None, or one value.
None == <<>>
Some(x) == <<x>>

NoFrame ==
  [fallible |-> <<>>, classfiles |-> <<>>, sources |-> <<>>,
   java_sources |-> <<>>, filter_coords |-> {}, unfiltered_lockfile |-> <<>>,
   lockfile |-> <<>>, materialized_classpath |-> None,
   merged_dependency_digest |-> None, dest_dir_digest |-> None,
   prefixed |-> None, classpath_arg |-> <<>>, merged_digest |-> None,
   compile_result |-> None, output_snapshot |-> None]

DependencyGraphs ==
  {[c \in Components |->
      RequiredDependencies[c] \cup {e[2] : e \in {x \in E : x[1] = c}}] :
     E \in SUBSET OptionalDependencies}

KindChoices ==
  {k \in [Targets -> {"java", "resources", "artifact"}] :
     \A t \in Targets : k[t] \in AllowedKinds[t]}

\* The components a build reaches from its root requests in the graph g.
RECURSIVE ReachedFrom(_, _)
ReachedFrom(g, S) ==
  LET next == S \cup UNION {g[c] : c \in S}
  IN  IF next = S THEN S ELSE ReachedFrom(g, next)

\* A build is told apart by what its root requests reach: a component they
\* do not reach is never looked at, so it has the required edges only and
\* its members their first target type.
Init ==
  /\ roots \in RootChoices
  /\ dependencies \in DependencyGraphs
  /\ kind \in KindChoices
  /\ \A c \in Components \ ReachedFrom(dependencies, {n[1] : n \in roots}) :
       /\ dependencies[c] = RequiredDependencies[c]
       /\ \A i \in 1 .. Len(members[c]) :
            kind[members[c][i]] \in {"java", "artifact"}
  /\ pc = [n \in Nodes |-> "none"]
  /\ frame = [n \in Nodes |-> NoFrame]
  /\ result = [n \in Nodes |-> None]
  /\ issued = [n \in Nodes |-> <<>>]
  /\ javac = [n \in Nodes |-> <<>>]
  /\ running = [n \in Nodes |-> 0]
  /\ caller = [i \in Callers |-> [request |-> None, received |-> None]]

(***************************************************************************)
(* The rule engine: Get(FallibleClasspathEntry, CompileJavaSourceRequest). *)
(***************************************************************************)
\* An engine that starts a run of the rule for every request it receives.
NeverMemoized(p, n) == FALSE

\* A node of the engine's graph exists for the request.
Memoized(p, n) == p[n] # "none"

\* The positions after the requests S: a request with no node starts a run
\* of the rule, any other one waits for the node there is.
Requested(p, S) ==
  [m \in Nodes |-> IF m \in S /\ ~Memoized(p, m) THEN "start" ELSE p[m]]

\* request.component.dependencies, as a tuple.
DependenciesOf(c) ==
  LET IsDep(d) == d \in dependencies[c] IN SelectSeq(ComponentOrder, IsDep)

\* CoarsenedTargets(components).closure()
RECURSIVE closure(_)
closure(S) ==
  LET next == S \cup UNION {dependencies[c] : c \in S}
  IN  IF next = S THEN S ELSE closure(next)

\* A test that also takes a ClasspathEntry of the empty image for false.
TruthyWhenNotEmpty(output) == output # None /\ output[1].digest # EMPTY_DIGEST

\* `if fcc.output`: a ClasspathEntry is truthy, None is not.
Truthy(output) == output # None

\* FallibleClasspathEntry.from_fallible_process_result(description, result, output)
from_fallible_process_result(description, process_result, output) ==
  [description |-> description,
   result |-> IF process_result.exit_code = 0 THEN "SUCCEEDED" ELSE "FAILED",
   output |-> output,
   exit_code |-> process_result.exit_code]

\* ClasspathEntry(digest)
ClasspathEntry(digest) == [digest |-> digest]

(***************************************************************************)
(* The callers of the rule.  They are interchangeable, so they send their  *)
(* requests in the order of their numbers, and those that asked for the    *)
(* same node are answered in that order.                                   *)
(***************************************************************************)
CallerRequest(i, n) ==
  /\ n \in roots
  /\ caller[i].request = None
  /\ \A j \in 1 .. i - 1 : caller[j].request # None
  /\ caller' = [caller EXCEPT ![i].request = Some(n)]
  /\ pc' = Requested(pc, {n})
  /\ UNCHANGED <<dependencies, kind, roots, frame, result, issued, javac, running>>

CallerReceive(i) ==
  /\ caller[i].request # None
  /\ caller[i].received = None
  /\ pc[caller[i].request[1]] = "done"
  /\ \A j \in 1 .. i - 1 :
       caller[j].request = caller[i].request => caller[j].received # None
  /\ caller' = [caller EXCEPT ![i].received = result[caller[i].request[1]]]
  /\ UNCHANGED <<dependencies, kind, roots, pc, frame, result, issued, javac, running>>

(***************************************************************************)
(* compile_java_source: the values the rule body computes.                 *)
(***************************************************************************)
\* Recursive requests that are all issued under the first resolve key,
\* whatever the key of the request.
DependencyRequestsUnderFirstResolve(c, r) == {<<d, "r1">> : d \in dependencies[c]}

\* The recursive requests of the rule: one per direct dependency, under the
\* resolve key of the request.
DependencyRequests(c, r) == {<<d, r>> : d \in dependencies[c]}

\* [fcc.output for fcc in direct_dependency_classfiles_fallible if fcc.output]
DirectDependencyClassfiles(fallible) ==
  LET HasOutput(fcc) == Truthy(fcc.output)
      ok == SelectSeq(fallible, HasOutput)
  IN  [i \in 1 .. Len(ok) |-> ok[i].output[1]]

\* A join that fails only when no dependency yielded a classpath entry.
AllDependenciesFailed(fallible) ==
  Len(fallible) # 0 /\ Len(DirectDependencyClassfiles(fallible)) = 0

\* len(direct_dependency_classfiles) != len(direct_dependency_classfiles_fallible)
AnyDependencyFailed(fallible) ==
  Len(DirectDependencyClassfiles(fallible)) # Len(fallible)

\* A DependencyFailed entry that carries an (empty) classpath entry.
DependencyFailedEntryWithOutput(c) ==
  [description |-> Str(c), result |-> "DEPENDENCY_FAILED",
   output |-> Some(ClasspathEntry(EMPTY_DIGEST)), exit_code |-> 1]

\* A DependencyFailed entry described by the component's first dependency.
DependencyFailedEntryNamingDependency(c) ==
  [description |-> Str(DependenciesOf(c)[1]), result |-> "DEPENDENCY_FAILED",
   output |-> None, exit_code |-> 1]

\* The entry returned when a dependency did not yield a classpath entry.
DependencyFailedEntry(c) ==
  [description |-> Str(c), result |-> "DEPENDENCY_FAILED", output |-> None,
   exit_code |-> 1]

\* tuple(t for t in request.component.members if t.has_field(SourcesField))
ComponentMembersWithSources(c) ==
  LET WithSources(t) == HasSourcesField(kind[t]) IN SelectSeq(members[c], WithSources)

\* zip(members, source files) without the filter on empty source images.
ComponentMembersAndAllSourceFiles(c, sources) ==
  LET with == ComponentMembersWithSources(c)
  IN  [i \in 1 .. Len(with) |-> [target |-> with[i], snapshot |-> sources[i][1]]]

\* zip(members, source files), filtered on a non-empty source image.
ComponentMembersAndJavaSourceFiles(c, sources) ==
  LET with == ComponentMembersWithSources(c)
      zipped == [i \in 1 .. Len(with) |-> [target |-> with[i], snapshot |-> sources[i][1]]]
      NonEmpty(p) == p.snapshot # EMPTY_DIGEST
  IN  SelectSeq(zipped, NonEmpty)

\* An alias entry that carries no classpath entry.
AliasEntryWithoutOutput(c, dependencies_digest) ==
  [description |-> Str(c), result |-> "SUCCEEDED", output |-> None, exit_code |-> 0]

\* The entry returned for a component that contributes no sources.
AliasEntry(c, dependencies_digest) ==
  [description |-> Str(c), result |-> "SUCCEEDED",
   output |-> Some(ClasspathEntry(dependencies_digest)), exit_code |-> 0]

\* Coordinates that count the component's own jvm_artifact members too.
FilterCoordsWithOwnMembers(c) ==
  UNION {{CoordinateOf(members[item][i]) :
            i \in {j \in 1 .. Len(members[item]) :
                     IsJvmArtifact(kind[members[item][j]])}} :
           item \in closure(dependencies[c] \cup {c})}

\* The coordinates of the jvm_artifact members of the dependencies' closure.
FilterCoords(c) ==
  UNION {{CoordinateOf(members[item][i]) :
            i \in {j \in 1 .. Len(members[item]) :
                     IsJvmArtifact(kind[members[item][j]])}} :
           item \in closure(dependencies[c])}

\* The digests of the direct dependencies' classpath entries.
ClassfilesDigests(classfiles) == {classfiles[i].digest : i \in 1 .. Len(classfiles)}

\* A classpath argument that lists the third-party entries first.
ClasspathArgThirdPartyFirst(prefixed, materialized) ==
  materialized.classpath_entries \o SnapshotFiles(prefixed)

\* ":".join([*prefixed.files, *materialized_classpath.classpath_entries()])
ClasspathArg(prefixed, materialized) ==
  SnapshotFiles(prefixed) \o materialized.classpath_entries

\* The images merged into the input of the compiler process.
InputDigests(f) ==
  {f.prefixed[1], f.materialized_classpath[1].digest, f.dest_dir_digest[1]}
    \cup {f.java_sources[i].snapshot : i \in 1 .. Len(f.java_sources)}

\* The source files chained in member order, without the sort.
ChainedSourceFiles(java_sources) ==
  chain([i \in 1 .. Len(java_sources) |-> SnapshotFiles(java_sources[i].snapshot)])

\* sorted(chain.from_iterable(sources.snapshot.files for ...))
SortedSourceFiles(java_sources) ==
  sorted(Range(chain([i \in 1 .. Len(java_sources) |->
                        SnapshotFiles(java_sources[i].snapshot)])))

\* A compiler Process that is always given "-cp" and the classpath argument.
JavacProcessAlwaysClasspath(c, f, merged_digest) ==
  [argv |-> [main |-> "com.sun.tools.javac.Main",
             cp |-> Some(f.classpath_arg),
             d |-> "classfiles",
             sources |-> SortedSourceFiles(f.java_sources)],
   input_digest |-> merged_digest,
   output_directories |-> {"classfiles"},
   description |-> CompileDescription(c)]

\* The compiler Process: ("-cp", classpath_arg) if classpath_arg, "-d",
\* dest_dir, the sorted sources; its input digest and its description.
JavacProcess(c, f, merged_digest) ==
  [argv |-> [main |-> "com.sun.tools.javac.Main",
             cp |-> IF f.classpath_arg # <<>> THEN Some(f.classpath_arg) ELSE None,
             d |-> "classfiles",
             sources |-> SortedSourceFiles(f.java_sources)],
   input_digest |-> merged_digest,
   output_directories |-> {"classfiles"},
   description |-> CompileDescription(c)]

\* A Failed entry that wraps the output of the failed compile.
FailedEntryWithOutput(c, compile_result) ==
  from_fallible_process_result(Str(c), compile_result,
                               Some(ClasspathEntry(compile_result.output_digest)))

\* A Failed entry described by the description of the compiler process.
FailedEntryProcessDescription(c, compile_result) ==
  from_fallible_process_result(CompileDescription(c), compile_result, None)

\* The entry returned when the compiler exits with a non-zero code.
FailedEntry(c, compile_result) ==
  from_fallible_process_result(Str(c), compile_result, None)

\* f"{request.component.representative.address.path_safe_spec}.jar"
OutputFile(c) == JarFileName[representative[c]]

\* An archiver that is run whatever the compiler wrote.
AlwaysNeedsJar(output_snapshot) == TRUE

\* `if output_snapshot.files`: the compiler wrote at least one file.
NeedsJar(output_snapshot) == SnapshotFiles(output_snapshot) # <<>>

\* The entry returned after a compile that exited with code 0.
CompiledEntry(c, compile_result, jar_output_digest) ==
  from_fallible_process_result(Str(c), compile_result,
                               Some(ClasspathEntry(jar_output_digest)))

\* The class file a compile of the component writes, when it writes one.
ClassFile(c) == <<"classfiles", c \o ".class">>

\* The image of the output directory of a compiler process.
OutputDirectory(fs) == [files |-> fs, dirs |-> {<<"classfiles">>}]

\* The results the compiler process may give: exit code 0 with a class file
\* or with an empty output directory, or a non-zero exit code (and, in the
\* model, no output).
CompileResults(c) ==
  {[exit_code |-> 0, output_digest |-> OutputDirectory(fs)] :
     fs \in {{}, {ClassFile(c)}}}
    \cup {[exit_code |-> e, output_digest |-> OutputDirectory({})] :
            e \in 1 .. MaxExitCode}

(***************************************************************************)
(* compile_java_source: one action per resumption of the rule body.        *)
(***************************************************************************)
Log(n, requests) == [issued EXCEPT ![n] = @ \o requests]

Repeat(x, k) == [i \in 1 .. k |-> x]

\* A start that requests the members' sources along with the dependencies.
StartWithSources(n) ==
  /\ pc[n] = "start"
  /\ pc' = [Requested(pc, DependencyRequests(n[1], n[2])) EXCEPT ![n] = "await_dependencies"]
  /\ issued' = Log(n, Repeat("CompileJavaSourceRequest", Len(DependenciesOf(n[1])))
                        \o Repeat("SourceFilesRequest", Len(ComponentMembersWithSources(n[1]))))
  /\ UNCHANGED <<dependencies, kind, roots, frame, result, javac, running, caller>>

\* The run starts and requests the classpath of every direct dependency.
Start(n) ==
  /\ pc[n] = "start"
  /\ pc' = [Requested(pc, DependencyRequests(n[1], n[2])) EXCEPT ![n] = "await_dependencies"]
  /\ issued' = Log(n, Repeat("CompileJavaSourceRequest", Len(DependenciesOf(n[1]))))
  /\ UNCHANGED <<dependencies, kind, roots, frame, result, javac, running, caller>>

\* A join that asks for the members' sources before it looks at the
\* dependencies' entries.
DependenciesJoinedSourcesFirst(n) ==
  LET c == n[1]
      deps == DependenciesOf(c)
      fallible == [i \in 1 .. Len(deps) |-> result[<<deps[i], n[2]>>][1]]
  IN  /\ pc[n] = "await_dependencies"
      /\ \A m \in DependencyRequests(c, n[2]) : pc[m] = "done"
      /\ issued' = Log(n, Repeat("SourceFilesRequest", Len(ComponentMembersWithSources(c))))
      /\ IF AnyDependencyFailed(fallible)
         THEN /\ result' = [result EXCEPT ![n] = Some(DependencyFailedEntry(c))]
              /\ pc' = [pc EXCEPT ![n] = "done"]
              /\ frame' = [frame EXCEPT ![n].fallible = fallible]
         ELSE /\ frame' = [frame EXCEPT
                             ![n].fallible = fallible,
                             ![n].classfiles = DirectDependencyClassfiles(fallible),
                             ![n].sources = Repeat(None, Len(ComponentMembersWithSources(c)))]
              /\ pc' = [pc EXCEPT ![n] = "await_sources"]
              /\ UNCHANGED result
      /\ UNCHANGED <<dependencies, kind, roots, javac, running, caller>>

\* A join that resumes only when every dependency has succeeded.
DependenciesJoinedOnSuccess(n) ==
  LET c == n[1]
      deps == DependenciesOf(c)
      fallible == [i \in 1 .. Len(deps) |-> result[<<deps[i], n[2]>>][1]]
  IN  /\ pc[n] = "await_dependencies"
      /\ \A m \in DependencyRequests(c, n[2]) : pc[m] = "done" /\ result[m][1].output # None
      /\ frame' = [frame EXCEPT
                     ![n].fallible = fallible,
                     ![n].classfiles = DirectDependencyClassfiles(fallible),
                     ![n].sources = Repeat(None, Len(ComponentMembersWithSources(c)))]
      /\ issued' = Log(n, Repeat("SourceFilesRequest", Len(ComponentMembersWithSources(c))))
      /\ pc' = [pc EXCEPT ![n] = "await_sources"]
      /\ UNCHANGED <<dependencies, kind, roots, result, javac, running, caller>>

\* Every dependency has answered: fail on a failed one, else ask for sources.
DependenciesJoined(n) ==
  LET c == n[1]
      deps == DependenciesOf(c)
      fallible == [i \in 1 .. Len(deps) |-> result[<<deps[i], n[2]>>][1]]
  IN  /\ pc[n] = "await_dependencies"
      /\ \A m \in DependencyRequests(c, n[2]) : pc[m] = "done"
      /\ IF AnyDependencyFailed(fallible)
         THEN /\ result' = [result EXCEPT ![n] = Some(DependencyFailedEntry(c))]
              /\ pc' = [pc EXCEPT ![n] = "done"]
              /\ frame' = [frame EXCEPT ![n].fallible = fallible]
              /\ UNCHANGED issued
         ELSE /\ frame' = [frame EXCEPT
                             ![n].fallible = fallible,
                             ![n].classfiles = DirectDependencyClassfiles(fallible),
                             ![n].sources = Repeat(None, Len(ComponentMembersWithSources(c)))]
              /\ issued' = Log(n, Repeat("SourceFilesRequest", Len(ComponentMembersWithSources(c))))
              /\ pc' = [pc EXCEPT ![n] = "await_sources"]
              /\ UNCHANGED result
      /\ UNCHANGED <<dependencies, kind, roots, javac, running, caller>>

\* The source provider answers the request for one member.
SourceFilesReturned(n, i) ==
  LET t == ComponentMembersWithSources(n[1])[i]
  IN  /\ pc[n] = "await_sources"
      /\ i \in 1 .. Len(frame[n].sources)
      /\ frame[n].sources[i] = None
      /\ frame' = [frame EXCEPT ![n].sources[i] = Some(SourceFilesOf(t, kind[t]))]
      /\ UNCHANGED <<dependencies, kind, roots, pc, result, issued, javac, running, caller>>

\* Every member's sources are here: an alias merges its dependencies' images,
\* any other component goes on to its lockfile.
SourcesJoined(n) ==
  LET c == n[1]
      java_sources == ComponentMembersAndJavaSourceFiles(c, frame[n].sources)
  IN  /\ pc[n] = "await_sources"
      /\ \A i \in 1 .. Len(frame[n].sources) : frame[n].sources[i] # None
      /\ IF java_sources = <<>>
         THEN /\ frame' = [frame EXCEPT ![n].java_sources = java_sources]
              /\ issued' = Log(n, <<"MergeDigests">>)
              /\ pc' = [pc EXCEPT ![n] = "await_alias_digest"]
         ELSE /\ frame' = [frame EXCEPT ![n].java_sources = java_sources,
                                        ![n].filter_coords = FilterCoords(c)]
              /\ issued' = Log(n, <<"CoursierResolveKey">>)
              /\ pc' = [pc EXCEPT ![n] = "await_unfiltered_lockfile"]
      /\ UNCHANGED <<dependencies, kind, roots, result, javac, running, caller>>

\* The merged image of the dependencies is the alias's classpath entry.
AliasDigestMerged(n) ==
  /\ pc[n] = "await_alias_digest"
  /\ result' = [result EXCEPT ![n] =
                  Some(AliasEntry(n[1], MergeDigests(ClassfilesDigests(frame[n].classfiles))))]
  /\ pc' = [pc EXCEPT ![n] = "done"]
  /\ UNCHANGED <<dependencies, kind, roots, frame, issued, javac, running, caller>>

\* The lockfile of the resolve key is here: filter it.
LockfileResolved(n) ==
  /\ pc[n] = "await_unfiltered_lockfile"
  /\ frame' = [frame EXCEPT ![n].unfiltered_lockfile = UnfilteredLockfile(n[2])]
  /\ issued' = Log(n, <<"FilterDependenciesRequest">>)
  /\ pc' = [pc EXCEPT ![n] = "await_lockfile"]
  /\ UNCHANGED <<dependencies, kind, roots, result, javac, running, caller>>

\* The filtered lockfile is here: materialize it, merge the dependencies'
\* images and create the output directory, in one MultiGet.
LockfileFiltered(n) ==
  /\ pc[n] = "await_lockfile"
  /\ frame' = [frame EXCEPT ![n].lockfile =
                 FilterDependencies(frame[n].filter_coords, frame[n].unfiltered_lockfile)]
  /\ issued' = Log(n, <<"MaterializedClasspathRequest", "MergeDigests", "CreateDigest">>)
  /\ pc' = [pc EXCEPT ![n] = "await_classpath"]
  /\ UNCHANGED <<dependencies, kind, roots, result, javac, running, caller>>

MaterializedClasspathReturned(n) ==
  /\ pc[n] = "await_classpath"
  /\ frame[n].materialized_classpath = None
  /\ frame' = [frame EXCEPT ![n].materialized_classpath =
                 Some(MaterializedClasspath("__thirdpartycp", frame[n].lockfile))]
  /\ UNCHANGED <<dependencies, kind, roots, pc, result, issued, javac, running, caller>>

DependencyDigestMerged(n) ==
  /\ pc[n] = "await_classpath"
  /\ frame[n].merged_dependency_digest = None
  /\ frame' = [frame EXCEPT ![n].merged_dependency_digest =
                 Some(MergeDigests(ClassfilesDigests(frame[n].classfiles)))]
  /\ UNCHANGED <<dependencies, kind, roots, pc, result, issued, javac, running, caller>>

DestDirCreated(n) ==
  /\ pc[n] = "await_classpath"
  /\ frame[n].dest_dir_digest = None
  /\ frame' = [frame EXCEPT ![n].dest_dir_digest = Some(CreateDirectory("classfiles"))]
  /\ UNCHANGED <<dependencies, kind, roots, pc, result, issued, javac, running, caller>>

\* A join that goes on as soon as the merged image and the output directory
\* are here, without the materialized classpath.
ClasspathJoinedWithoutMaterialized(n) ==
  /\ pc[n] = "await_classpath"
  /\ frame[n].merged_dependency_digest # None
  /\ frame[n].dest_dir_digest # None
  /\ issued' = Log(n, <<"AddPrefix">>)
  /\ pc' = [pc EXCEPT ![n] = "await_prefixed"]
  /\ UNCHANGED <<dependencies, kind, roots, frame, result, javac, running, caller>>

\* The three answers are here: put the dependencies' image under "__usercp".
ClasspathJoined(n) ==
  /\ pc[n] = "await_classpath"
  /\ frame[n].materialized_classpath # None
  /\ frame[n].merged_dependency_digest # None
  /\ frame[n].dest_dir_digest # None
  /\ issued' = Log(n, <<"AddPrefix">>)
  /\ pc' = [pc EXCEPT ![n] = "await_prefixed"]
  /\ UNCHANGED <<dependencies, kind, roots, frame, result, javac, running, caller>>

\* The prefixed snapshot is here: build the classpath argument and merge the
\* input of the compiler.
Prefixed(n) ==
  LET prefixed == AddPrefix(frame[n].merged_dependency_digest[1], "__usercp")
  IN  /\ pc[n] = "await_prefixed"
      /\ frame' = [frame EXCEPT
                     ![n].prefixed = Some(prefixed),
                     ![n].classpath_arg =
                        ClasspathArg(prefixed, frame[n].materialized_classpath[1])]
      /\ issued' = Log(n, <<"MergeDigests">>)
      /\ pc' = [pc EXCEPT ![n] = "await_merged_digest"]
      /\ UNCHANGED <<dependencies, kind, roots, result, javac, running, caller>>

\* The input image is here: request the compiler process.
InputDigestMerged(n) ==
  LET merged_digest == MergeDigests(InputDigests(frame[n]))
  IN  /\ pc[n] = "await_merged_digest"
      /\ frame' = [frame EXCEPT ![n].merged_digest = Some(merged_digest)]
      /\ javac' = [javac EXCEPT ![n] = Append(@, JavacProcess(n[1], frame[n], merged_digest))]
      /\ running' = [running EXCEPT ![n] = @ + 1]
      /\ issued' = Log(n, <<"Process(javac)">>)
      /\ pc' = [pc EXCEPT ![n] = "await_compile"]
      /\ UNCHANGED <<dependencies, kind, roots, result, caller>>

\* The compiler process has ended: Failed on a non-zero exit code, else ask
\* for the snapshot of its output.
CompileReturned(n, compile_result) ==
  /\ pc[n] = "await_compile"
  /\ running' = [running EXCEPT ![n] = @ - 1]
  /\ frame' = [frame EXCEPT ![n].compile_result = Some(compile_result)]
  /\ IF compile_result.exit_code # 0
     THEN /\ result' = [result EXCEPT ![n] = Some(FailedEntry(n[1], compile_result))]
          /\ pc' = [pc EXCEPT ![n] = "done"]
          /\ UNCHANGED issued
     ELSE /\ issued' = Log(n, <<"Snapshot">>)
          /\ pc' = [pc EXCEPT ![n] = "await_output_snapshot"]
          /\ UNCHANGED result
  /\ UNCHANGED <<dependencies, kind, roots, javac, caller>>

\* The output snapshot is here: jar it up if it has files, else return the
\* empty image.
OutputSnapshotReturned(n) ==
  LET compile_result == frame[n].compile_result[1]
      output_snapshot == compile_result.output_digest
  IN  /\ pc[n] = "await_output_snapshot"
      /\ frame' = [frame EXCEPT ![n].output_snapshot = Some(output_snapshot)]
      /\ IF NeedsJar(output_snapshot)
         THEN /\ issued' = Log(n, <<"Process(zip)">>)
              /\ pc' = [pc EXCEPT ![n] = "await_jar"]
              /\ UNCHANGED result
         ELSE /\ result' = [result EXCEPT ![n] =
                              Some(CompiledEntry(n[1], compile_result, EMPTY_DIGEST))]
              /\ pc' = [pc EXCEPT ![n] = "done"]
              /\ UNCHANGED issued
      /\ UNCHANGED <<dependencies, kind, roots, javac, running, caller>>

\* ProcessResult of the archiver: the image that holds the jar.
JarResult(c) == [output_digest |-> [files |-> {<<OutputFile(c)>>}, dirs |-> {}]]

\* The archiver has ended: the jar is the classpath entry.
JarReturned(n) ==
  /\ pc[n] = "await_jar"
  /\ result' = [result EXCEPT ![n] =
                  Some(CompiledEntry(n[1], frame[n].compile_result[1],
                                     JarResult(n[1]).output_digest))]
  /\ pc' = [pc EXCEPT ![n] = "done"]
  /\ UNCHANGED <<dependencies, kind, roots, frame, issued, javac, running, caller>>

Next ==
  \/ \E i \in Callers, n \in Nodes : CallerRequest(i, n)
  \/ \E i \in Callers : CallerReceive(i)
  \/ \E n \in Nodes : Start(n)
  \/ \E n \in Nodes : DependenciesJoined(n)
  \/ \E n \in Nodes : \E i \in 1 .. Len(frame[n].sources) : SourceFilesReturned(n, i)
  \/ \E n \in Nodes : SourcesJoined(n)
  \/ \E n \in Nodes : AliasDigestMerged(n)
  \/ \E n \in Nodes : LockfileResolved(n)
  \/ \E n \in Nodes : LockfileFiltered(n)
  \/ \E n \in Nodes : MaterializedClasspathReturned(n)
  \/ \E n \in Nodes : DependencyDigestMerged(n)
  \/ \E n \in Nodes : DestDirCreated(n)
  \/ \E n \in Nodes : ClasspathJoined(n)
  \/ \E n \in Nodes : Prefixed(n)
  \/ \E n \in Nodes : InputDigestMerged(n)
  \/ \E n \in Nodes : \E cr \in CompileResults(n[1]) : CompileReturned(n, cr)
  \/ \E n \in Nodes : OutputSnapshotReturned(n)
  \/ \E n \in Nodes : JarReturned(n)

Spec == Init /\ [][Next]_vars

\* A step of the run of one node: the scheduler resumes the rule body, or a
\* collaborator answers one of its requests.
Run(n) ==
  \/ Start(n)
  \/ DependenciesJoined(n)
  \/ \E i \in 1 .. Len(frame[n].sources) : SourceFilesReturned(n, i)
  \/ SourcesJoined(n)
  \/ AliasDigestMerged(n)
  \/ LockfileResolved(n)
  \/ LockfileFiltered(n)
  \/ MaterializedClasspathReturned(n)
  \/ DependencyDigestMerged(n)
  \/ DestDirCreated(n)
  \/ ClasspathJoined(n)
  \/ Prefixed(n)
  \/ InputDigestMerged(n)
  \/ \E cr \in CompileResults(n[1]) : CompileReturned(n, cr)
  \/ OutputSnapshotReturned(n)
  \/ JarReturned(n)

\* One build: the callers ask for the top of the diamond, whose members all
\* have Java sources, over B and C, the shared D and the library L below C.
FairInit ==
  /\ Init
  /\ roots = {<<"A", "r1">>}
  /\ dependencies["A"] = {"B", "C"} /\ "L" \in dependencies["C"]
  /\ \A t \in {"A:y", "A:x", "D:d"} : kind[t] = "java"

\* The same program under a fair scheduler and collaborators that answer:
\* a node that can take a step eventually takes one, and a finished node's
\* entry is eventually handed to the caller that waits for it.  Nothing
\* makes a caller issue its request.
FairSpec ==
  /\ FairInit /\ [][Next]_vars
  /\ \A n \in Nodes : WF_vars(Run(n))
  /\ \A i \in Callers : WF_vars(CallerReceive(i))

(***************************************************************************)
(* Properties.                                                             *)
(***************************************************************************)
Done(n) == pc[n] = "done"
Entry(n) == result[n][1]
Invoked(n, request) == request \in Range(issued[n])
DependencyNodes(n) == {<<d, n[2]>> : d \in dependencies[n[1]]}
TransitiveDependencyNodes(n) == {<<d, n[2]>> : d \in closure(dependencies[n[1]])}
NotSucceeded(m) == result[m] # None /\ Entry(m).result \in {"FAILED", "DEPENDENCY_FAILED"}
Failed(m) == result[m] # None /\ Entry(m).result = "FAILED"
Succeeded(m) == result[m] # None /\ Entry(m).result = "SUCCEEDED"
HasJavaSources(c) == \E i \in 1 .. Len(members[c]) : kind[members[c][i]] = "java"

\* C1: for every (component, resolve key) pair the compiler is requested at
\* most once and never twice at the same time, and every requester of the
\* pair (a caller, or a dependent at its join) holds the one entry the pair's
\* node returned.
C1_CompiledOncePerPair ==
  /\ \A n \in Nodes : Len(javac[n]) <= 1 /\ running[n] <= 1
  /\ \A i \in Callers :
       caller[i].received # None => caller[i].received = result[caller[i].request[1]]
  /\ \A n \in Nodes : \A k \in 1 .. Len(frame[n].fallible) :
       frame[n].fallible[k] = Entry(<<DependenciesOf(n[1])[k], n[2]>>)

\* A diamond: A was compiled over B and C, both compiled over the shared D,
\* which was compiled once, and both callers received A's entry.
C1_Witness ==
  \E r \in Resolves :
    /\ dependencies["A"] = {"B", "C"}
    /\ Len(javac[<<"A", r>>]) = 1 /\ Len(javac[<<"B", r>>]) = 1
    /\ Len(javac[<<"C", r>>]) = 1 /\ Len(javac[<<"D", r>>]) = 1
    /\ \A i \in Callers : caller[i].request = Some(<<"A", r>>) /\ caller[i].received # None

\* C2: a component with a direct dependency whose result is Failed or
\* DependencyFailed never has a compiler process requested, and its result,
\* once there, is DependencyFailed with exit code 1 and no classpath entry,
\* whether or not it has sources.
C2_DirectDependencyFailed ==
  \A n \in Nodes :
    (\E m \in DependencyNodes(n) : NotSucceeded(m)) =>
      /\ javac[n] = <<>>
      /\ Done(n) =>
           /\ Entry(n).result = "DEPENDENCY_FAILED"
           /\ Entry(n).exit_code = 1
           /\ Entry(n).output = None

\* A component with Java sources ended DependencyFailed under a failed dependency.
C2_Witness ==
  \E n \in Nodes :
    /\ Done(n) /\ HasJavaSources(n[1])
    /\ Entry(n).result = "DEPENDENCY_FAILED"
    /\ \E m \in DependencyNodes(n) : Failed(m)

\* C3: a component with a Failed component anywhere in its transitive
\* dependency closure never has a compiler process requested, and its result,
\* once there, is DependencyFailed; this covers every component on a path to
\* the failed one.
C3_FailClosed ==
  \A n \in Nodes :
    (\E m \in TransitiveDependencyNodes(n) : Failed(m)) =>
      /\ javac[n] = <<>>
      /\ Done(n) => Entry(n).result = "DEPENDENCY_FAILED"

\* A ended DependencyFailed because D, two edges below it, Failed.
C3_Witness ==
  \E r \in Resolves :
    /\ Failed(<<"D", r>>) /\ "D" \notin dependencies["A"]
    /\ Done(<<"A", r>>) /\ Entry(<<"A", r>>).result = "DEPENDENCY_FAILED"
    /\ \A c \in dependencies["A"] : Entry(<<c, r>>).result = "DEPENDENCY_FAILED"

\* No member of the component contributes a non-empty source image.
NoContributingSources(c) ==
  \A i \in 1 .. Len(members[c]) :
    LET t == members[c][i]
    IN  ~HasSourcesField(kind[t]) \/ SourceFilesOf(t, kind[t]) = EMPTY_DIGEST

\* C4: a component none of whose members contributes sources never has the
\* compiler or the archiver requested, and, when all its direct dependencies
\* succeeded, its result is Succeeded with exit code 0 and a classpath entry
\* that is the merge of exactly its direct dependencies' output images.
C4_AliasPassThrough ==
  \A n \in Nodes :
    NoContributingSources(n[1]) =>
      /\ javac[n] = <<>>
      /\ ~Invoked(n, "Process(zip)")
      /\ (Done(n) /\ \A m \in DependencyNodes(n) : Succeeded(m)) =>
           /\ Entry(n).result = "SUCCEEDED"
           /\ Entry(n).exit_code = 0
           /\ Entry(n).output =
                Some(ClasspathEntry(MergeDigests(
                       {Entry(m).output[1].digest : m \in DependencyNodes(n)})))

\* The alias A passed on the jars of its two dependencies B and C.
C4_Witness ==
  \E r \in Resolves :
    /\ Done(<<"A", r>>) /\ NoContributingSources("A")
    /\ dependencies["A"] = {"B", "C"}
    /\ Entry(<<"A", r>>).output =
         Some(ClasspathEntry([files |-> {<<"src.B.b.jar">>, <<"src.C.c.jar">>}, dirs |-> {}]))

\* The compiler process of the node returned this exit code and these files.
Compiled(n, codes) ==
  frame[n].compile_result # None /\ frame[n].compile_result[1].exit_code \in codes
OutputFiles(n) == frame[n].compile_result[1].output_digest.files

\* C5: the archiver is requested only after a compile that exited 0 with at
\* least one output file, and for every such compile of a finished node; a
\* compile that exited 0 with no output file ends Succeeded with the empty
\* image as its classpath entry, and a jarred one ends with the image of the
\* jar named after the representative member.
C5_EmptyOutputIsSuccess ==
  \A n \in Nodes :
    /\ Invoked(n, "Process(zip)") => Compiled(n, {0}) /\ OutputFiles(n) # {}
    /\ Done(n) /\ Compiled(n, {0}) =>
         /\ Invoked(n, "Process(zip)") <=> OutputFiles(n) # {}
         /\ Entry(n).result = "SUCCEEDED"
         /\ Entry(n).output =
              Some(ClasspathEntry(
                     IF OutputFiles(n) = {} THEN EMPTY_DIGEST
                     ELSE [files |-> {<<JarFileName[representative[n[1]]]>>}, dirs |-> {}]))

\* D compiled to nothing and B, over it, compiled to a jar.
C5_Witness ==
  \E r \in Resolves :
    /\ Done(<<"D", r>>) /\ Compiled(<<"D", r>>, {0}) /\ OutputFiles(<<"D", r>>) = {}
    /\ ~Invoked(<<"D", r>>, "Process(zip)")
    /\ Done(<<"B", r>>) /\ Invoked(<<"B", r>>, "Process(zip)")

\* C6: after a compiler process that returned a non-zero exit code the result
\* is Failed with that exit code and no classpath entry, and the archiver is
\* not requested.
C6_CompilerFailure ==
  \A n \in Nodes :
    Compiled(n, 1 .. MaxExitCode) =>
      /\ result[n] # None
      /\ Entry(n).result = "FAILED"
      /\ Entry(n).exit_code = frame[n].compile_result[1].exit_code
      /\ Entry(n).output = None
      /\ ~Invoked(n, "Process(zip)")

\* A compile ended with exit code 2.
C6_Witness ==
  \E n \in Nodes : Done(n) /\ Compiled(n, {2}) /\ Entry(n).exit_code = 2

IsUser(p) == p[1] = "__usercp"
IsThirdParty(p) == p[1] = "__thirdpartycp"

\* The files of the direct dependencies' output images.
DependencyOutputFiles(n) ==
  UNION {Entry(m).output[1].digest.files : m \in DependencyNodes(n)}

\* C7: in the classpath argument of every compiler process, every first-party
\* entry (a file of the dependencies' images under "__usercp") comes before
\* every third-party entry (an entry of the materialized lockfile), the
\* first-party entries are the dependencies' output files and the third-party
\* ones the filtered lockfile's, whatever the order of the answers was.
C7_ClasspathOrder ==
  \A n \in Nodes : \A k \in 1 .. Len(javac[n]) :
    LET cp == IF javac[n][k].argv.cp = None THEN <<>> ELSE javac[n][k].argv.cp[1]
    IN  /\ \A i, j \in 1 .. Len(cp) : IsUser(cp[i]) /\ IsThirdParty(cp[j]) => i < j
        /\ {p \in Range(cp) : IsUser(p)} =
             {<<"__usercp">> \o f : f \in DependencyOutputFiles(n)}
        /\ {p \in Range(cp) : IsThirdParty(p)} =
             {<<"__thirdpartycp", e.file_name>> :
                e \in Range(FilterDependencies(FilterCoords(n[1]), UnfilteredLockfile(n[2])))}

\* C was compiled over D's jar and L's library: both kinds are on its classpath.
C7_Witness ==
  \E r \in Resolves :
    /\ Len(javac[<<"C", r>>]) = 1
    /\ javac[<<"C", r>>][1].argv.cp # None
    /\ \E p \in Range(javac[<<"C", r>>][1].argv.cp[1]) : IsUser(p)
    /\ \E p \in Range(javac[<<"C", r>>][1].argv.cp[1]) : IsThirdParty(p)

\* C8: every result the rule returns has the string form of the requested
\* component as its description.
C8_Description ==
  \A n \in Nodes : result[n] # None => Entry(n).description = Str(n[1])

\* One build that took all four exits: L an alias, B compiled and jarred, C
\* failed to compile, A failed on its dependency.
C8_Witness ==
  \E r \in Resolves :
    /\ Done(<<"A", r>>) /\ Entry(<<"A", r>>).result = "DEPENDENCY_FAILED"
    /\ Done(<<"C", r>>) /\ Entry(<<"C", r>>).result = "FAILED"
    /\ Done(<<"B", r>>) /\ Invoked(<<"B", r>>, "Process(zip)")
    /\ Done(<<"L", r>>) /\ Invoked(<<"L", r>>, "MergeDigests")

\* The failing component f can be found from the entry alone: the entry's
\* description names it.
Names(entry, f) == entry.description = Str(f)

\* C9 as stated: from the result of every DependencyFailed component, a
\* Failed component of its dependency closure is discoverable.
C9_RootCauseInResult ==
  \A n \in Nodes :
    (Done(n) /\ Entry(n).result = "DEPENDENCY_FAILED") =>
      \E m \in TransitiveDependencyNodes(n) : Failed(m) /\ Names(Entry(n), m[1])

\* C9 amended: every component with a Failed component in its dependency
\* closure ends DependencyFailed with a description that is its own string
\* form and names no other component; every DependencyFailed component has a
\* Failed component in its dependency closure, found through the dependencies'
\* own results.
C9_DependencyFailedDescribesItself ==
  \A n \in Nodes :
    /\ (Done(n) /\ \E m \in TransitiveDependencyNodes(n) : Failed(m)) =>
         /\ Entry(n).result = "DEPENDENCY_FAILED"
         /\ Entry(n).description = Str(n[1])
         /\ \A c \in Components \ {n[1]} : ~Names(Entry(n), c)
    /\ (Done(n) /\ Entry(n).result = "DEPENDENCY_FAILED") =>
         /\ \E m \in DependencyNodes(n) : NotSucceeded(m)
         /\ \E m \in TransitiveDependencyNodes(n) : Failed(m)

\* The leaf D failed and A, B and C all ended DependencyFailed.
C9_Witness ==
  \E r \in Resolves :
    /\ Failed(<<"D", r>>)
    /\ dependencies["A"] = {"B", "C"}
    /\ \A c \in {"A", "B", "C"} :
         Done(<<c, r>>) /\ Entry(<<c, r>>).result = "DEPENDENCY_FAILED"

\* C10 as stated: a component that waits for the result of a dependency has
\* already requested the sources of its members.
C10_SourcesRequestedWithDependencies ==
  \A n \in Nodes :
    (/\ pc[n] = "await_dependencies"
     /\ \E m \in DependencyNodes(n) : ~Done(m)
     /\ ComponentMembersWithSources(n[1]) # <<>>) =>
      Invoked(n, "SourceFilesRequest")

\* C10 amended: the sources of a component's members are requested only after
\* every direct dependency has returned its result, and only when all of them
\* succeeded.
C10_SourcesAfterDependencies ==
  \A n \in Nodes :
    Invoked(n, "SourceFilesRequest") =>
      /\ pc[n] # "await_dependencies"
      /\ \A m \in DependencyNodes(n) : Done(m) /\ Succeeded(m)

\* A requested its members' sources after B and C had both succeeded.
C10_Witness ==
  \E r \in Resolves :
    /\ dependencies["A"] = {"B", "C"}
    /\ pc[<<"A", r>>] = "await_sources"
    /\ Invoked(<<"A", r>>, "SourceFilesRequest")

\* The requests a node issues besides the compile requests of its dependencies.
FurtherWork ==
  {"SourceFilesRequest", "CoursierResolveKey", "FilterDependenciesRequest",
   "MaterializedClasspathRequest", "MergeDigests", "CreateDigest", "AddPrefix",
   "Process(javac)", "Snapshot", "Process(zip)"}

\* C11: a component with a direct dependency that did not succeed issues no
\* request besides the compile requests of its dependencies (no source,
\* lockfile, filter, materialization, merge, prefix, compiler or archiver
\* request), and once its dependencies are joined it is finished with a
\* DependencyFailed result: it never stands at any later await.
C11_NoWorkAfterFailedDependency ==
  \A n \in Nodes :
    (\E m \in DependencyNodes(n) : NotSucceeded(m)) =>
      /\ Range(issued[n]) \cap FurtherWork = {}
      /\ javac[n] = <<>>
      /\ pc[n] \in {"none", "start", "await_dependencies", "done"}
      /\ Done(n) =>
           /\ Entry(n).result = "DEPENDENCY_FAILED"
           /\ frame[n].sources = <<>> /\ frame[n].unfiltered_lockfile = None
           /\ frame[n].merged_digest = None /\ frame[n].compile_result = None

\* A component with Java sources and two dependencies, one succeeded and one
\* not, is finished having issued its two dependency requests and nothing else.
C11_Witness ==
  \E n \in Nodes :
    /\ Done(n) /\ HasJavaSources(n[1])
    /\ \E m \in DependencyNodes(n) : NotSucceeded(m)
    /\ \E m \in DependencyNodes(n) : Succeeded(m)
    /\ issued[n] = <<"CompileJavaSourceRequest", "CompileJavaSourceRequest">>

\* C12: every result is Succeeded, Failed or DependencyFailed; it carries a
\* classpath entry exactly when it is Succeeded (so a Failed or a
\* DependencyFailed result carries none), a DependencyFailed result has exit
\* code 1 and a Succeeded result has exit code 0.
C12_ResultModel ==
  \A n \in Nodes :
    result[n] # None =>
      /\ Entry(n).result \in {"SUCCEEDED", "FAILED", "DEPENDENCY_FAILED"}
      /\ Entry(n).output # None <=> Entry(n).result = "SUCCEEDED"
      /\ Entry(n).result = "DEPENDENCY_FAILED" => Entry(n).exit_code = 1
      /\ Entry(n).result = "SUCCEEDED" => Entry(n).exit_code = 0

\* One build holds all the results: an alias and a compiled component that
\* succeeded, a component whose compile failed, and a dependent of it.
C12_Witness ==
  \E a, s, f, d \in Nodes :
    /\ Succeeded(a) /\ javac[a] = <<>>
    /\ Succeeded(s) /\ Len(javac[s]) = 1
    /\ Failed(f) /\ Entry(f).exit_code = MaxExitCode
    /\ Done(d) /\ Entry(d).result = "DEPENDENCY_FAILED"

\* Every source request of the node is answered.
SourcesRetrieved(n) ==
  /\ Len(frame[n].sources) = Len(ComponentMembersWithSources(n[1]))
  /\ \A i \in 1 .. Len(frame[n].sources) : frame[n].sources[i] # None

\* The lockfile is filtered and materialized, and the dependencies' images
\* are merged.
ClasspathAnswered(n) ==
  /\ Invoked(n, "FilterDependenciesRequest")
  /\ frame[n].materialized_classpath # None
  /\ frame[n].merged_dependency_digest # None
  /\ frame[n].dest_dir_digest # None

\* C13: when the compiler process of a component is requested, every direct
\* dependency has finished Succeeded, every source request of the component
\* is answered, the lockfile is filtered and materialized, the dependencies'
\* images are merged and prefixed, and every component of the transitive
\* dependency closure has finished and has no compile in flight; the prefix
\* is requested only after materialization and merge are answered, and the
\* archiver only after the compiler has exited with 0.
C13_StageOrdering ==
  \A n \in Nodes :
    /\ Invoked(n, "AddPrefix") => ClasspathAnswered(n)
    /\ Invoked(n, "Process(javac)") =>
         /\ \A m \in DependencyNodes(n) : Done(m) /\ Succeeded(m)
         /\ SourcesRetrieved(n)
         /\ ClasspathAnswered(n)
         /\ frame[n].prefixed # None /\ frame[n].merged_digest # None
         /\ \A m \in TransitiveDependencyNodes(n) :
              Done(m) /\ running[m] = 0 /\ result[m] # None
    /\ Invoked(n, "Process(zip)") =>
         /\ Invoked(n, "Process(javac)")
         /\ Compiled(n, {0})

\* The top of the diamond has its compiler and its archiver requested, over
\* two compiled dependencies and their shared ancestor.
C13_Witness ==
  \E r \in Resolves :
    /\ dependencies["A"] = {"B", "C"}
    /\ Invoked(<<"A", r>>, "Process(zip)")
    /\ \A c \in {"B", "C", "D"} : Len(javac[<<c, r>>]) = 1

\* The nodes the callers have asked for so far.
RootsRequested == {caller[i].request[1] : i \in {j \in Callers : caller[j].request # None}}

\* C14: every node that runs was requested under the resolve key of a root
\* request, for the root's component or a component of its dependency
\* closure; every entry a node holds for a dependency, and every entry a
\* caller received, is the result of the node with the same resolve key;
\* and each node, so each of the two nodes of one component under two keys,
\* has its compiler requested at most once, with the lockfile of its own key.
C14_ResolveKeyKept ==
  /\ \A n \in Nodes :
       /\ pc[n] # "none" =>
            \E root \in RootsRequested :
              /\ n[2] = root[2]
              /\ n[1] \in {root[1]} \cup closure(dependencies[root[1]])
       /\ \A k \in 1 .. Len(frame[n].fallible) :
            /\ result[<<DependenciesOf(n[1])[k], n[2]>>] # None
            /\ frame[n].fallible[k] = result[<<DependenciesOf(n[1])[k], n[2]>>][1]
       /\ Len(javac[n]) <= 1
       /\ frame[n].unfiltered_lockfile \in {None, UnfilteredLockfile(n[2])}
  /\ \A i \in Callers :
       caller[i].received # None =>
         /\ result[caller[i].request[1]] # None
         /\ caller[i].received[1] = Entry(caller[i].request[1])

\* D was asked for under the first resolve key and its compile failed; C
\* was asked for under the second, over D under the second, whose compile
\* succeeded: C was compiled, and each caller holds its own node's result.
C14_Witness ==
  /\ Len(javac[<<"D", "r1">>]) = 1 /\ Len(javac[<<"D", "r2">>]) = 1
  /\ Failed(<<"D", "r1">>) /\ Succeeded(<<"D", "r2">>)
  /\ Len(javac[<<"C", "r2">>]) = 1 /\ Succeeded(<<"C", "r2">>)
  /\ pc[<<"C", "r1">>] = "none"
  /\ \E i, j \in Callers :
       /\ caller[i].request = Some(<<"D", "r1">>) /\ caller[j].request = Some(<<"C", "r2">>)
       /\ caller[i].received # None /\ caller[i].received[1].result = "FAILED"
       /\ caller[j].received # None /\ caller[j].received[1].result = "SUCCEEDED"

\* The place of a path in the lexicographic order of paths.
LexIndex(p) == CHOOSE i \in 1 .. Len(LexOrder) : LexOrder[i] = p
StrictlySorted(paths) ==
  \A i, j \in 1 .. Len(paths) : i < j => LexIndex(paths[i]) < LexIndex(paths[j])

\* How many times the node has issued the request.
Count(n, request) == Cardinality({i \in 1 .. Len(issued[n]) : issued[n][i] = request})

\* The members of the given kinds.
MembersOfKind(c, kinds) ==
  {members[c][i] : i \in {j \in 1 .. Len(members[c]) : kind[members[c][j]] \in kinds}}

\* C15: the source files of every compiler process are in strictly
\* increasing lexicographic order and are exactly the Java source files of
\* the members with a sources field and a non-empty source image, whatever
\* the order the source requests were answered in; the node issues one
\* source request per member with a sources field and none for the others;
\* and the members kept for the compile are the ones with a non-empty
\* image, so that the source part of the compiler's input is their files.
C15_SortedSources ==
  \A n \in Nodes :
    /\ Count(n, "SourceFilesRequest") \in
         {0, Cardinality(MembersOfKind(n[1], {"java", "resources"}))}
    /\ \A k \in 1 .. Len(javac[n]) :
         LET p == javac[n][k] IN
           /\ StrictlySorted(p.argv.sources)
           /\ Range(p.argv.sources) = {SourceFile[t] : t \in MembersOfKind(n[1], {"java"})}
           /\ Len(p.argv.sources) = Cardinality(MembersOfKind(n[1], {"java"}))
           /\ {f \in p.input_digest.files : f[1] = "src"} = Range(p.argv.sources)
           /\ {frame[n].java_sources[i].target : i \in 1 .. Len(frame[n].java_sources)}
                = MembersOfKind(n[1], {"java"})
           /\ \A i \in 1 .. Len(frame[n].java_sources) :
                frame[n].java_sources[i].snapshot # EMPTY_DIGEST

\* A's two Java members, listed Y before X, are compiled as X.java, Y.java,
\* over C, which issued one source request for its two members, the second
\* of which has no sources field.
C15_Witness ==
  \E r \in Resolves :
    /\ Len(javac[<<"A", r>>]) = 1
    /\ Len(frame[<<"A", r>>].java_sources) = 2
    /\ frame[<<"A", r>>].java_sources[1].target = "A:y"
    /\ frame[<<"A", r>>].java_sources[2].target = "A:x"
    /\ javac[<<"A", r>>][1].argv.sources =
         << <<"src", "A", "X.java">>, <<"src", "A", "Y.java">> >>
    /\ "C" \in dependencies["A"]
    /\ Count(<<"C", r>>, "SourceFilesRequest") = 1
    /\ Len(javac[<<"C", r>>]) = 1

\* C16: a compiler process has the "-cp" flag exactly when the classpath
\* argument assembled for it is not empty, and then the flag's value is that
\* argument; the argument is empty exactly when the direct dependencies'
\* images hold no file and the filtered lockfile has no entry; with or
\* without the flag, "-d", the output directory and the sources are passed.
C16_ClasspathFlag ==
  \A n \in Nodes : \A k \in 1 .. Len(javac[n]) :
    LET p == javac[n][k]
        third_party == frame[n].materialized_classpath[1].classpath_entries
    IN  /\ p.argv.cp # None <=> frame[n].classpath_arg # <<>>
        /\ p.argv.cp # None => p.argv.cp[1] = frame[n].classpath_arg /\ p.argv.cp[1] # <<>>
        /\ frame[n].classpath_arg = <<>> <=>
             (DependencyOutputFiles(n) = {} /\ third_party = <<>>)
        /\ p.argv.d = "classfiles"
        /\ p.argv.sources # <<>>

\* B is compiled with a classpath that holds D's jar, and D, which has no
\* dependency, was compiled without the flag.
C16_Witness ==
  \E r \in Resolves :
    /\ Len(javac[<<"D", r>>]) = 1 /\ Len(javac[<<"B", r>>]) = 1
    /\ javac[<<"D", r>>][1].argv.cp = None
    /\ javac[<<"D", r>>][1].argv.d = "classfiles"
    /\ javac[<<"D", r>>][1].argv.sources = << <<"src", "D", "D.java">> >>
    /\ javac[<<"B", r>>][1].argv.cp = Some(<< <<"__usercp", "src.D.d.jar">> >>)

\* The components below c in the graph: its direct dependencies and theirs.
RECURSIVE Descendants(_)
Descendants(c) == dependencies[c] \cup UNION {Descendants(d) : d \in dependencies[c]}

\* The members of a component, as a set.
MembersOf(c) == {members[c][i] : i \in 1 .. Len(members[c])}

\* C17: once a component asks for its lockfile, the coordinates it filters
\* with are exactly those of the members with an artifact field of the
\* components below it (its direct dependencies and, transitively, theirs):
\* no coordinate of a member of the component itself, none of a source
\* target; and the filtered lockfile is the entries of its resolve key's
\* lockfile with these coordinates.
C17_FilterCoordinates ==
  \A n \in Nodes :
    LET below == UNION {MembersOf(d) : d \in Descendants(n[1])} IN
      /\ Invoked(n, "CoursierResolveKey") =>
           /\ frame[n].filter_coords = {CoordinateOf(t) : t \in {u \in below : kind[u] = "artifact"}}
           /\ \A t \in MembersOf(n[1]) : CoordinateOf(t) \notin frame[n].filter_coords
           /\ \A t \in Targets :
                kind[t] \in {"java", "resources"} => CoordinateOf(t) \notin frame[n].filter_coords
      /\ Invoked(n, "MaterializedClasspathRequest") =>
           /\ \A i \in 1 .. Len(frame[n].lockfile) :
                \E t \in below : kind[t] = "artifact" /\ frame[n].lockfile[i].coord = CoordinateOf(t)
           /\ \A t \in below : kind[t] = "artifact" =>
                \E i \in 1 .. Len(frame[n].lockfile) : frame[n].lockfile[i].coord = CoordinateOf(t)

\* A is compiled over C and C over the library L: C, which has an artifact
\* member of its own, filters with L's coordinate only, and A with the
\* coordinates of C's artifact member and of L, which it reaches through C.
C17_Witness ==
  \E r \in Resolves :
    /\ dependencies["A"] = {"C"} /\ dependencies["C"] = {"D", "L"}
    /\ Len(javac[<<"A", r>>]) = 1 /\ Len(javac[<<"C", r>>]) = 1
    /\ frame[<<"C", r>>].filter_coords = {CoordinateOf("L:lib")}
    /\ frame[<<"A", r>>].filter_coords = {CoordinateOf("C:art"), CoordinateOf("L:lib")}
    /\ Len(frame[<<"A", r>>].lockfile) = 2 /\ Len(frame[<<"C", r>>].lockfile) = 1

\* C18: a component that has joined its dependencies ended DependencyFailed
\* exactly when one of their results carries no classpath entry; a
\* dependency that Succeeded with the empty image is not such a one: a
\* dependent all of whose dependencies Succeeded goes on to request its
\* sources, and is never DependencyFailed.
C18_FailedIffNoEntry ==
  \A n \in Nodes :
    pc[n] \notin {"none", "start", "await_dependencies"} =>
      /\ (Done(n) /\ Entry(n).result = "DEPENDENCY_FAILED")
           <=> \E m \in DependencyNodes(n) : Entry(m).output = None
      /\ (\A m \in DependencyNodes(n) : Succeeded(m)) =>
           /\ Count(n, "SourceFilesRequest") = Len(ComponentMembersWithSources(n[1]))
           /\ Len(frame[n].classfiles) = Cardinality(DependencyNodes(n))
           /\ NoContributingSources(n[1]) \/ pc[n] = "await_sources"
                \/ Invoked(n, "CoursierResolveKey")

\* D compiled to no class file and Succeeded with the empty image; B, over
\* D alone, had its compiler requested and Succeeded.
C18_Witness ==
  \E r \in Resolves :
    /\ Succeeded(<<"D", r>>) /\ Len(javac[<<"D", r>>]) = 1
    /\ Entry(<<"D", r>>).output = Some(ClasspathEntry(EMPTY_DIGEST))
    /\ dependencies["B"] = {"D"}
    /\ Len(javac[<<"B", r>>]) = 1 /\ Succeeded(<<"B", r>>)

\* C19: under a fair scheduler and collaborators that answer, every node
\* that was requested eventually is finished with one result, Succeeded,
\* Failed or DependencyFailed, and every caller that asked eventually holds
\* an entry; a result, once there, never changes.
C19_EveryRequestCompletes ==
  /\ \A n \in Nodes :
       (pc[n] # "none") ~>
         (Done(n) /\ result[n] # None
            /\ result[n][1].result \in {"SUCCEEDED", "FAILED", "DEPENDENCY_FAILED"})
  /\ \A i \in Callers : (caller[i].request # None) ~> (caller[i].received # None)
  /\ [][\A n \in Nodes : result[n] # None => result'[n] = result[n]]_vars

\* Every caller holds the DependencyFailed entry of the top of the diamond,
\* below which one compile failed, and every requested node is finished.
C19_Witness ==
  \E r \in Resolves :
    /\ dependencies["A"] = {"B", "C"}
    /\ \A i \in Callers : caller[i].received # None
    /\ Done(<<"A", r>>) /\ Entry(<<"A", r>>).result = "DEPENDENCY_FAILED"
    /\ Failed(<<"D", r>>)
    /\ \A n \in Nodes : pc[n] \in {"none", "done"}

====
